---- MODULE Spec2Model ----
(***************************************************************************)
(* Model of ReactiveMidnightWalletProvider                                 *)
(* (src/src/context/ReactiveMidnightWalletContext.tsx).                    *)
(*                                                                         *)
(* The React state hooks and the three interval refs are the variables.    *)
(* Every asynchronous routine of the provider is a task in the bag         *)
(* inFlight: its kind, the connector call it is waiting for (pc) and the   *)
(* values its closure captured when it started.  One action is one         *)
(* synchronous run of handler code between two connector calls, followed   *)
(* by the render it schedules and the Background Polling effect when the   *)
(* render changed one of the effect's dependencies.                        *)
(***************************************************************************)
EXTENDS Integers, Sequences, FiniteSets, Bags, TLC

\* ---------------------------------------------------------------- bounds
\* largest number of connector calls awaited at the same time
MaxInFlight == 2

\* ------------------------------------------------------------- constants
APPROVAL_POLLING_INTERVAL_MS == 500
APPROVAL_POLLING_TIMEOUT_MS == 15000
maxAttempts == APPROVAL_POLLING_TIMEOUT_MS \div APPROVAL_POLLING_INTERVAL_MS

NULL == "null"
ARMED == "armed"

\* targetWalletName / connector.name
ConnectorName == "mnLace"

\* what getConnector() can return when it is called: the connector registered
\* as window.midnight[targetWalletName] (TRUE) or null (FALSE); the wallet
\* extension may register or remove it at any time
getConnector == BOOLEAN

\* the handles enable() can resolve with
Handles == {"h1", "h2"}

\* the handles worth telling apart when enable() resolves: the handle the
\* provider holds or another one; with no handle held every handle is new
EnableResults(held) == IF held = NULL THEN {"h1"} ELSE Handles

\* the wallet states state() can resolve with; s1a and s1b are two states of
\* the same account
WalletStates == {"s1a", "s1b", "s2"}

\* newState.address
address(ws) == IF ws = "s2" THEN "addr2" ELSE "addr1"

\* walletState ? walletState.address : null
AddressOf(ws) == IF ws = NULL THEN NULL ELSE address(ws)

ServiceUris == "uris"

\* the errors enable() can reject with
EnableErrors == {"code-3", "msgEnableFirst", "code-1"}

\* (err as { code }).code ; 0 stands for an absent code
ErrCode(err) == CASE err = "code-3" -> -3
                  [] err = "code-1" -> -1
                  [] OTHER -> 0

\* String(msg).includes('enable() first')
MsgIncludesEnableFirst(err) == err = "msgEnableFirst"

\* const isApprovalError = code === -3 || String(msg).includes('enable() first')
isApprovalError(err) == ErrCode(err) = -3 \/ MsgIncludesEnableFirst(err)

\* the messages of setError and setInfoMessage
ErrNotFound == "Wallet connector not found."
ErrConnectionFailed == "Connection failed"
ErrDetailsFailed == "Connected, but failed to fetch wallet details."
ErrTimedOut == "Connection timed out. Did you approve the request in the wallet?"
ErrApprovalCheck == "An error occurred while checking wallet approval status."
InfoApprove == "Connection prompt likely appeared. Please approve it. Checking status..."
InfoFinalizing == "Approval detected. Finalizing connection..."

VARIABLES
    \* the provider: its useState values (walletApi, serviceUris, walletState,
    \* isConnecting, isCheckingStatus, error, infoMessage, walletName), its
    \* useRef values (the three interval refs) and the closures of the armed
    \* intervals: attempts of the approval poll, pollClosure (walletApi and
    \* walletState?.address of the render whose effect armed the background
    \* polls); approvalChecks counts the isEnabled() calls the armed approval
    \* poll has issued; orphanTimers tells that setInterval's id was stored in
    \* a ref that still held a running timer, which then runs on unreferenced
    S,
    \* the provider has mounted (its effects have run once)
    mounted,
    \* the asynchronous routines waiting for a connector call
    inFlight,
    \* history: the handler or callback of the provider that ran last, its
    \* step and the input it got
    lastOp,
    \* history: disconnectWallet() ran and connectWallet() was not called since
    cleared,
    \* history: outcome of the establish attempt that finished last, "none"
    \* after a disconnect
    lastEstablish

vars == <<S, mounted, inFlight, lastOp, cleared, lastEstablish>>

walletApi == S.walletApi
serviceUris == S.serviceUris
walletState == S.walletState
isConnecting == S.isConnecting
isCheckingStatus == S.isCheckingStatus
error == S.error
infoMessage == S.infoMessage
walletName == S.walletName
statusPollIntervalRef == S.statusPollIntervalRef
statePollIntervalRef == S.statePollIntervalRef
approvalPollIntervalRef == S.approvalPollIntervalRef
attempts == S.attempts
pollClosure == S.pollClosure
approvalChecks == S.approvalChecks
orphanTimers == S.orphanTimers

\* const isConnected = !!walletApi
isConnected == walletApi # NULL

\* all three interval refs are null
NoTimerArmed == /\ statusPollIntervalRef = NULL
                /\ statePollIntervalRef = NULL
                /\ approvalPollIntervalRef = NULL

\* ------------------------------------------------------------------ tasks
\* error is the truthiness of the error the task's closure captured, addr the
\* address it captured
Task(kind, pc, err, addr) == [kind |-> kind, pc |-> pc, error |-> err, addr |-> addr]

Spawn(t) == inFlight (+) SetToBag({t})
Finish(t) == inFlight (-) SetToBag({t})
Move(t, pc) == (inFlight (-) SetToBag({t})) (+) SetToBag({[t EXCEPT !.pc = pc]})
HasRoom == BagCardinality(inFlight) < MaxInFlight

\* -------------------------------------------------- synchronous routines
clearAllIntervals(s) == [s EXCEPT !.statusPollIntervalRef = NULL,
                                  !.statePollIntervalRef = NULL,
                                  !.approvalPollIntervalRef = NULL]

disconnectWallet_AsKeepMessages(s) ==
    [clearAllIntervals(s) EXCEPT !.walletApi = NULL, !.serviceUris = NULL,
                                 !.walletState = NULL, !.isConnecting = FALSE,
                                 !.isCheckingStatus = FALSE, !.walletName = NULL]

disconnectWallet(s) ==
    [clearAllIntervals(s) EXCEPT !.walletApi = NULL, !.serviceUris = NULL,
                                 !.walletState = NULL, !.error = NULL,
                                 !.infoMessage = NULL, !.isConnecting = FALSE,
                                 !.isCheckingStatus = FALSE, !.walletName = NULL]

\* ref.current = setInterval(...): the timer ref held before, if any, is
\* not cleared by the assignment
setInterval(s, ref) == [s EXCEPT ![ref] = ARMED,
                                 !.orphanTimers = @ \/ s[ref] # NULL]

_startApprovalPolling_AsNoClear(s) ==
    setInterval([s EXCEPT !.infoMessage = InfoApprove,
                          !.attempts = 0,
                          !.approvalChecks = 0],
                "approvalPollIntervalRef")

_startApprovalPolling(s) ==
    setInterval([clearAllIntervals(s) EXCEPT !.infoMessage = InfoApprove,
                                             !.attempts = 0,
                                             !.approvalChecks = 0],
                "approvalPollIntervalRef")

\* the Background Polling effect, run after a render
BackgroundPollingEffect(s) ==
    IF s.walletApi # NULL
    THEN [setInterval(setInterval(clearAllIntervals(s), "statusPollIntervalRef"),
                      "statePollIntervalRef")
          EXCEPT !.pollClosure = <<s.walletApi, AddressOf(s.walletState)>>,
                 !.isCheckingStatus = FALSE]
    ELSE [clearAllIntervals(s) EXCEPT !.isCheckingStatus = FALSE]

\* the effect's dependencies [isConnected, walletApi, walletState?.address]
EffectDeps(s) == <<s.walletApi # NULL, s.walletApi, AddressOf(s.walletState)>>

\* the render after a handler left the state n: the effect runs when its
\* dependencies changed
Render(old, n) == IF EffectDeps(n) # EffectDeps(old)
                  THEN BackgroundPollingEffect(n)
                  ELSE n

\* the closures of cleared intervals are unreachable
DropClosures(m) ==
    [m EXCEPT !.attempts = IF m.approvalPollIntervalRef = NULL THEN 0 ELSE @,
              !.approvalChecks = IF m.approvalPollIntervalRef = NULL THEN 0 ELSE @,
              !.pollClosure = IF m.statePollIntervalRef = NULL THEN <<NULL, NULL>> ELSE @]

Commit(n) == S' = DropClosures(Render(S, n))

\* ------------------------------------------------------------------- Init
Init ==
    /\ S = [walletApi |-> NULL, serviceUris |-> NULL, walletState |-> NULL,
            isConnecting |-> FALSE, isCheckingStatus |-> TRUE,
            error |-> NULL, infoMessage |-> NULL, walletName |-> NULL,
            statusPollIntervalRef |-> NULL, statePollIntervalRef |-> NULL,
            approvalPollIntervalRef |-> NULL,
            attempts |-> 0, pollClosure |-> <<NULL, NULL>>,
            approvalChecks |-> 0, orphanTimers |-> FALSE]
    /\ mounted = FALSE
    /\ inFlight = EmptyBag
    /\ lastOp = <<"init", "", "">>
    /\ cleared = FALSE
    /\ lastEstablish = "none"

\* ---------------------------------------------------- establish routine
\* _fetchDetails after Promise.all resolved: true
_fetchDetails_ok(s, ws) == [s EXCEPT !.walletState = ws, !.serviceUris = ServiceUris]

\* _fetchDetails after Promise.all rejected: false
_fetchDetails_catch(s) == [s EXCEPT !.error = ErrDetailsFailed,
                                    !.walletState = NULL,
                                    !.serviceUris = NULL]

\* _establishConnection after enable() resolved, up to the await in _fetchDetails
_establishConnection_enabled(s, h) == [s EXCEPT !.walletApi = h,
                                                !.walletName = ConnectorName]

\* _establishConnection after _fetchDetails returned true
_establishConnection_success(s) == [s EXCEPT !.error = NULL, !.infoMessage = NULL]

\* _establishConnection's catch block (enable() rejected with err)
_establishConnection_catch(s, err, isInitialCheck) ==
    LET r == [s EXCEPT !.walletApi = NULL, !.serviceUris = NULL,
                       !.walletState = NULL, !.walletName = NULL]
    IN IF isApprovalError(err) /\ ~isInitialCheck THEN r
       ELSE IF ~isInitialCheck THEN [r EXCEPT !.error = ErrConnectionFailed]
       ELSE r

connectWallet_guard_AsConnectingOnly(s) == s.isConnecting

\* if (isConnecting || isConnected) return;
connectWallet_guard(s) == s.isConnecting \/ s.walletApi # NULL

\* connectWallet up to getConnector()
connectWallet_begin(s) ==
    clearAllIntervals([s EXCEPT !.isConnecting = TRUE, !.error = NULL,
                                !.infoMessage = NULL])

connectWallet_notFound_AsStillConnecting(s) == [s EXCEPT !.error = ErrNotFound]

\* if (!connector) { setError(...); setIsConnecting(false); return; }
connectWallet_notFound(s) == [s EXCEPT !.error = ErrNotFound, !.isConnecting = FALSE]

\* connectWallet after await _establishConnection: errorAtCall is the
\* truthiness of the error of the render that created the callback
connectWallet_after(s, success, errorAtCall) ==
    IF ~success /\ ~errorAtCall
    THEN _startApprovalPolling(s)
    ELSE [s EXCEPT !.isConnecting = FALSE]

\* the approval poll callback after await _establishConnection
approvalPoll_after(s) == [s EXCEPT !.infoMessage = NULL, !.isConnecting = FALSE]

\* the Initial Load Check's finally()
initialCheck_finally(s) == [s EXCEPT !.isCheckingStatus = FALSE]

\* the caller's code that runs when _establishConnection has returned
AfterEstablish(t, success, s) ==
    CASE t.kind = "connectWallet" -> connectWallet_after(s, success, t.error)
      [] t.kind = "approvalPoll" -> approvalPoll_after(s)
      [] OTHER -> initialCheck_finally(s)

EstablishKinds == {"initialCheck", "connectWallet", "approvalPoll"}

\* ---------------------------------------------------------------- actions
\* first render committed: the Initial Load Check effect, then the Background
\* Polling effect
Mount ==
    /\ ~mounted
    /\ mounted' = TRUE
    /\ \E connector \in getConnector :
        /\ LET s1 == [S EXCEPT !.isCheckingStatus = TRUE]
               s2 == IF connector THEN s1 ELSE [s1 EXCEPT !.isCheckingStatus = FALSE]
               s3 == BackgroundPollingEffect(s2)
           IN Commit(s3)
        /\ inFlight' = IF connector
                       THEN Spawn(Task("initialCheck", "isEnabled", FALSE, NULL))
                       ELSE inFlight
        /\ lastOp' = <<"mount", "", IF connector THEN "connector" ELSE "noConnector">>
    /\ UNCHANGED <<cleared, lastEstablish>>

\* connectWallet()
ConnectWallet ==
    /\ mounted
    /\ cleared' = FALSE
    /\ UNCHANGED <<mounted, lastEstablish>>
    /\ \/ /\ connectWallet_guard(S)
          /\ Commit(S)
          /\ inFlight' = inFlight
          /\ lastOp' = <<"connectWallet", "call", "ignored">>
       \/ /\ ~connectWallet_guard(S)
          /\ FALSE \in getConnector
          /\ Commit(connectWallet_notFound(connectWallet_begin(S)))
          /\ inFlight' = inFlight
          /\ lastOp' = <<"connectWallet", "call", "notFound">>
       \/ /\ ~connectWallet_guard(S)
          /\ TRUE \in getConnector
          /\ HasRoom
          /\ Commit(connectWallet_begin(S))
          /\ inFlight' = Spawn(Task("connectWallet", "enable", error # NULL, NULL))
          /\ lastOp' = <<"connectWallet", "call", "enable">>

\* disconnectWallet() called by the consumer
DisconnectWallet ==
    /\ mounted
    /\ Commit(disconnectWallet(S))
    /\ cleared' = TRUE
    /\ lastEstablish' = "none"
    /\ lastOp' = <<"disconnectWallet", "call", "">>
    /\ UNCHANGED <<mounted, inFlight>>

\* connector.enable() resolves with the handle h
EnableResolves ==
    \E t \in BagToSet(inFlight), h \in EnableResults(walletApi) :
        /\ t.kind \in EstablishKinds /\ t.pc = "enable"
        /\ Commit(_establishConnection_enabled(S, h))
        /\ inFlight' = Move(t, "details")
        /\ lastOp' = <<t.kind, "enable", h>>
        /\ UNCHANGED <<mounted, cleared, lastEstablish>>

\* connector.enable() rejects with err
EnableRejects ==
    \E t \in BagToSet(inFlight), err \in EnableErrors :
        /\ t.kind \in EstablishKinds /\ t.pc = "enable"
        /\ Commit(AfterEstablish(t, FALSE,
                    _establishConnection_catch(S, err, t.kind = "initialCheck")))
        /\ inFlight' = Finish(t)
        /\ lastOp' = <<t.kind, "enable", err>>
        /\ lastEstablish' = "failed"
        /\ UNCHANGED <<mounted, cleared>>

\* Promise.all([enabledApi.state(), connector.serviceUriConfig()]) resolves
DetailsResolve ==
    \E t \in BagToSet(inFlight), ws \in WalletStates :
        /\ t.kind \in EstablishKinds /\ t.pc = "details"
        /\ Commit(AfterEstablish(t, TRUE,
                    _establishConnection_success(_fetchDetails_ok(S, ws))))
        /\ inFlight' = Finish(t)
        /\ lastOp' = <<t.kind, "details", ws>>
        /\ lastEstablish' = "ok"
        /\ UNCHANGED <<mounted, cleared>>

\* enabledApi.state() or connector.serviceUriConfig() rejects
DetailsReject ==
    \E t \in BagToSet(inFlight), which \in {"state", "serviceUriConfig"} :
        /\ t.kind \in EstablishKinds /\ t.pc = "details"
        /\ Commit(AfterEstablish(t, FALSE, _fetchDetails_catch(S)))
        /\ inFlight' = Finish(t)
        /\ lastOp' = <<t.kind, "details", which \o " rejects">>
        /\ lastEstablish' = "failed"
        /\ UNCHANGED <<mounted, cleared>>

initialCheck_enabled_AsNotThrown(r) == r # "throws"

\* .then(enabled => { if (enabled) return _establishConnection(connector, true);
\* return false; }): a rejection skips the handler
initialCheck_enabled(r) == r = "true"

\* the Initial Load Check's connector.isEnabled() settles
InitialIsEnabledSettles ==
    \E t \in BagToSet(inFlight), r \in {"true", "false", "throws"} :
        /\ t.kind = "initialCheck" /\ t.pc = "isEnabled"
        /\ IF initialCheck_enabled(r)
           THEN /\ Commit(S)
                /\ inFlight' = Move(t, "enable")
           ELSE /\ Commit(initialCheck_finally(S))
                /\ inFlight' = Finish(t)
        /\ lastOp' = <<"initialCheck", "isEnabled", r>>
        /\ UNCHANGED <<mounted, cleared, lastEstablish>>

\* ------------------------------------------------------------ approval poll
approvalPoll_timedOut_AsEarly(a) == a >= maxAttempts

\* if (attempts > maxAttempts)
approvalPoll_timedOut(a) == a > maxAttempts

\* the timeout branch of the approval poll callback
approvalPoll_timeout(s) ==
    [clearAllIntervals(s) EXCEPT !.error = ErrTimedOut, !.infoMessage = NULL,
                                 !.isConnecting = FALSE]

\* the approval poll callback after connector.isEnabled() resolved true, up to
\* the await of _establishConnection
approvalPoll_enabled(s) == [clearAllIntervals(s) EXCEPT !.infoMessage = InfoFinalizing]

approvalPoll_catch_AsKeepPolling(s) ==
    [s EXCEPT !.error = ErrApprovalCheck, !.infoMessage = NULL,
              !.isConnecting = FALSE]

\* the approval poll callback's catch block
approvalPoll_catch(s) ==
    [clearAllIntervals(s) EXCEPT !.error = ErrApprovalCheck, !.infoMessage = NULL,
                                 !.isConnecting = FALSE]

\* the approval interval fires
ApprovalPollTick ==
    /\ mounted
    /\ approvalPollIntervalRef = ARMED
    /\ UNCHANGED <<mounted, cleared, lastEstablish>>
    /\ LET a == attempts + 1 IN
       \/ /\ approvalPoll_timedOut(a)
          /\ Commit(approvalPoll_timeout([S EXCEPT !.attempts = a]))
          /\ inFlight' = inFlight
          /\ lastOp' = <<"approvalPoll", "tick", "timeout">>
       \/ /\ ~approvalPoll_timedOut(a)
          /\ HasRoom
          /\ Commit([S EXCEPT !.attempts = a, !.approvalChecks = @ + 1])
          /\ inFlight' = Spawn(Task("approvalPoll", "isEnabled", FALSE, NULL))
          /\ lastOp' = <<"approvalPoll", "tick", "isEnabled">>

\* the approval poll's connector.isEnabled() settles
ApprovalIsEnabledSettles ==
    \E t \in BagToSet(inFlight), r \in {"true", "false", "throws"} :
        /\ t.kind = "approvalPoll" /\ t.pc = "isEnabled"
        /\ CASE r = "true" -> /\ Commit(approvalPoll_enabled(S))
                              /\ inFlight' = Move(t, "enable")
             [] r = "false" -> /\ Commit(S)
                               /\ inFlight' = Finish(t)
             [] OTHER -> /\ Commit(approvalPoll_catch(S))
                         /\ inFlight' = Finish(t)
        /\ lastOp' = <<"approvalPoll", "isEnabled", r>>
        /\ UNCHANGED <<mounted, cleared, lastEstablish>>

\* ---------------------------------------------------------- background polls
statusPoll_settled_AsIgnoreThrow(s, r) == IF r = "false" THEN disconnectWallet(s) ELSE s

\* the status poll callback after connector.isEnabled() settled
statusPoll_settled(s, r) == IF r = "true" THEN s ELSE disconnectWallet(s)

\* the status interval fires
StatusPollTick ==
    /\ mounted
    /\ statusPollIntervalRef = ARMED
    /\ UNCHANGED mounted
    /\ \/ /\ FALSE \in getConnector
          /\ Commit(disconnectWallet(S))
          /\ inFlight' = inFlight
          /\ cleared' = TRUE
          /\ lastEstablish' = "none"
          /\ lastOp' = <<"statusPoll", "tick", "noConnector">>
       \/ /\ TRUE \in getConnector
          /\ HasRoom
          /\ Commit(S)
          /\ inFlight' = Spawn(Task("statusPoll", "isEnabled", FALSE, NULL))
          /\ lastOp' = <<"statusPoll", "tick", "isEnabled">>
          /\ UNCHANGED <<cleared, lastEstablish>>

\* the status poll's connector.isEnabled() settles
StatusIsEnabledSettles ==
    \E t \in BagToSet(inFlight), r \in {"true", "false", "throws"} :
        /\ t.kind = "statusPoll" /\ t.pc = "isEnabled"
        /\ Commit(statusPoll_settled(S, r))
        /\ inFlight' = Finish(t)
        /\ cleared' = IF r = "true" THEN cleared ELSE TRUE
        /\ lastEstablish' = IF r = "true" THEN lastEstablish ELSE "none"
        /\ lastOp' = <<"statusPoll", "isEnabled", r>>
        /\ UNCHANGED mounted

statePoll_settled_AsRetryOnThrow(s, r, capturedAddress) ==
    IF r = "throws" THEN s
    ELSE IF address(r) # capturedAddress THEN [s EXCEPT !.walletState = r]
    ELSE s

\* the state poll callback after currentWalletApi.state() settled;
\* capturedAddress is walletState ? walletState.address : null of the render
\* whose effect armed the interval
statePoll_settled(s, r, capturedAddress) ==
    IF r = "throws" THEN disconnectWallet(s)
    ELSE IF address(r) # capturedAddress THEN [s EXCEPT !.walletState = r]
    ELSE s

\* the state interval fires
StatePollTick ==
    /\ mounted
    /\ statePollIntervalRef = ARMED
    /\ pollClosure[1] # NULL
    /\ HasRoom
    /\ Commit(S)
    /\ inFlight' = Spawn(Task("statePoll", "state", FALSE, pollClosure[2]))
    /\ lastOp' = <<"statePoll", "tick", "state">>
    /\ UNCHANGED <<mounted, cleared, lastEstablish>>

\* the state poll's currentWalletApi.state() settles
StateSettles ==
    \E t \in BagToSet(inFlight), r \in WalletStates \cup {"throws"} :
        /\ t.kind = "statePoll" /\ t.pc = "state"
        /\ Commit(statePoll_settled(S, r, t.addr))
        /\ inFlight' = Finish(t)
        /\ cleared' = IF r = "throws" THEN TRUE ELSE cleared
        /\ lastEstablish' = IF r = "throws" THEN "none" ELSE lastEstablish
        /\ lastOp' = <<"statePoll", "state", r>>
        /\ UNCHANGED mounted

\* ------------------------------------------------------------ specification
Next ==
    \/ Mount
    \/ ConnectWallet
    \/ DisconnectWallet
    \/ EnableResolves
    \/ EnableRejects
    \/ DetailsResolve
    \/ DetailsReject
    \/ InitialIsEnabledSettles
    \/ ApprovalPollTick
    \/ ApprovalIsEnabledSettles
    \/ StatusPollTick
    \/ StatusIsEnabledSettles
    \/ StatePollTick
    \/ StateSettles

Spec == Init /\ [][Next]_vars

\* every armed interval keeps firing and every awaited connector call
\* settles; calls of the consumer (connectWallet, disconnectWallet) are not
\* forced
Fairness ==
    /\ WF_vars(ApprovalPollTick)
    /\ WF_vars(StatusPollTick)
    /\ WF_vars(StatePollTick)
    /\ WF_vars(EnableResolves \/ EnableRejects)
    /\ WF_vars(DetailsResolve \/ DetailsReject)
    /\ WF_vars(InitialIsEnabledSettles)
    /\ WF_vars(ApprovalIsEnabledSettles)
    /\ WF_vars(StatusIsEnabledSettles)
    /\ WF_vars(StateSettles)

FairSpec == Spec /\ Fairness

\* ------------------------------------------------------------------ claims
ApprovalPending == {err \in EnableErrors : ErrCode(err) = -3 \/ MsgIncludesEnableFirst(err)}

\* C1: walletApi is non-null exactly when the establish attempt that finished
\* last succeeded completely and no disconnect or failure happened since
C1_WalletApiIffEstablished ==
    mounted => ((walletApi # NULL) <=> (lastEstablish = "ok"))

\* C2: a connectWallet() call made while isConnecting or isConnected changes
\* no state, no ref and starts no connector call
C2_ConnectIsNoOp ==
    [][(/\ lastOp'[1] = "connectWallet" /\ lastOp'[2] = "call"
        /\ (isConnecting \/ isConnected))
       => (S' = S /\ inFlight' = inFlight)]_vars

C2_Witness ==
    /\ lastOp = <<"connectWallet", "call", "ignored">>
    /\ isConnected /\ ~isConnecting

\* C3: from disconnectWallet() until the next connectWallet() call walletApi,
\* walletState and serviceUris are null and no timer is armed
C3_StaysCleared ==
    cleared => /\ walletApi = NULL /\ walletState = NULL /\ serviceUris = NULL
               /\ NoTimerArmed

\* C4: a manual attempt whose enable() rejects with the approval-pending
\* signal is awaiting approval afterwards: poll armed, infoMessage set,
\* isConnecting true, no error
C4_ApprovalPendingAwaits ==
    (/\ lastOp[1] = "connectWallet" /\ lastOp[2] = "enable"
     /\ lastOp[3] \in ApprovalPending)
    => /\ approvalPollIntervalRef = ARMED
       /\ infoMessage # NULL
       /\ isConnecting
       /\ error = NULL

\* C5: a manual attempt whose enable() rejects with another error ends in
\* Error: connection-failed message, isConnecting false, no approval poll, no
\* infoMessage
C5_OtherErrorEndsInError ==
    (/\ lastOp[1] = "connectWallet" /\ lastOp[2] = "enable"
     /\ lastOp[3] \in EnableErrors \ ApprovalPending)
    => /\ error = ErrConnectionFailed
       /\ ~isConnecting
       /\ approvalPollIntervalRef = NULL
       /\ infoMessage = NULL

\* C6: when state() or serviceUriConfig() rejects after enable() resolved in
\* a manual attempt, the details-fetch-failed error is set and walletApi,
\* walletState and serviceUris are null
C6_DetailsFailureDiscardsHandle ==
    (/\ lastOp[1] \in {"connectWallet", "approvalPoll"} /\ lastOp[2] = "details"
     /\ lastOp[3] \in {"state rejects", "serviceUriConfig rejects"})
    => /\ error = ErrDetailsFailed
       /\ walletApi = NULL /\ walletState = NULL /\ serviceUris = NULL

\* C7: the approval poll tick that exceeds maxAttempts = 30, and no earlier
\* one, ends the wait with the timed-out error, isConnecting false, no
\* infoMessage and no timer armed; isEnabled() is called on no later tick, so
\* at most 30 times in one wait
C7_ApprovalPollTimesOut ==
    [][/\ (lastOp' = <<"approvalPoll", "tick", "timeout">>)
            => /\ attempts + 1 > maxAttempts
               /\ attempts = 15000 \div 500
               /\ error' = ErrTimedOut
               /\ ~isConnecting'
               /\ infoMessage' = NULL
               /\ NoTimerArmed'
       /\ (lastOp' = <<"approvalPoll", "tick", "isEnabled">>)
            => /\ attempts + 1 <= 15000 \div 500
               /\ approvalChecks' = approvalChecks + 1
       /\ approvalChecks' <= 15000 \div 500]_vars

C7_Witness ==
    /\ lastOp = <<"approvalPoll", "tick", "timeout">>
    /\ error = ErrTimedOut

\* C8: after a status poll in which isEnabled() resolved false or threw, or
\* in which the connector was gone, walletApi, walletState and serviceUris
\* are null and no timer is armed
C8_LivenessFailureResets ==
    (/\ lastOp[1] = "statusPoll"
     /\ lastOp[3] \in {"false", "throws", "noConnector"})
    => /\ walletApi = NULL /\ walletState = NULL /\ serviceUris = NULL
       /\ NoTimerArmed

C8_Witness ==
    /\ lastOp = <<"statusPoll", "isEnabled", "throws">>
    /\ walletApi = NULL

\* C9: in a connected session a state poll whose result has another address
\* than the cached walletState replaces walletState and leaves walletApi,
\* serviceUris, walletName, error and isConnecting as they were; a result
\* with the cached address changes nothing
C9_StatePollFollowsAddress ==
    [][(/\ lastOp'[1] = "statePoll" /\ lastOp'[2] = "state"
        /\ lastOp'[3] \in WalletStates
        /\ walletApi # NULL)
       => IF address(lastOp'[3]) # AddressOf(walletState)
          THEN /\ walletState' = lastOp'[3]
               /\ walletApi' = walletApi /\ serviceUris' = serviceUris
               /\ walletName' = walletName /\ error' = error
               /\ isConnecting' = isConnecting
          ELSE S' = S]_vars

\* C10: a connectWallet() call that finds no connector ends with the
\* connector-not-found error and isConnecting false, starts no connector
\* call, leaves no timer armed and walletApi null
C10_ConnectorNotFound ==
    [][(lastOp' = <<"connectWallet", "call", "notFound">>)
       => /\ error' = ErrNotFound
          /\ ~isConnecting'
          /\ inFlight' = inFlight
          /\ NoTimerArmed'
          /\ walletApi' = NULL]_vars

C10_Witness ==
    /\ lastOp = <<"connectWallet", "call", "notFound">>
    /\ error = ErrNotFound /\ ~isConnecting

\* C11: disconnectWallet(), called from any state, leaves the provider idle:
\* no timer armed, walletApi, walletState, serviceUris, walletName, error and
\* infoMessage null, isConnecting and isCheckingStatus false
C11_DisconnectLeavesIdle ==
    (lastOp = <<"disconnectWallet", "call", "">>)
    => /\ NoTimerArmed
       /\ walletApi = NULL /\ walletState = NULL /\ serviceUris = NULL
       /\ walletName = NULL /\ error = NULL /\ infoMessage = NULL
       /\ ~isConnecting /\ ~isCheckingStatus

\* a disconnect made while a connector call of an attempt is still awaited
C11_Witness ==
    /\ lastOp = <<"disconnectWallet", "call", "">>
    /\ \E t \in BagToSet(inFlight) : t.kind \in {"connectWallet", "approvalPoll"}
    /\ walletApi = NULL /\ ~isConnecting

\* C12: the Initial Load Check surfaces no error: no step in which the check
\* or the silent establish it started completes (isEnabled() false or throws,
\* enable() rejects, state() or serviceUriConfig() settles) turns a null
\* error into an error
C12_InitialCheckIsSilent ==
    [][(lastOp'[1] = "initialCheck" /\ error = NULL) => error' = NULL]_vars

\* C13: when the enable(), state() and serviceUriConfig() of a manual
\* connectWallet() have all resolved the provider is connected: walletApi
\* holds a handle, walletState and serviceUris hold the fetched values,
\* walletName is the connector's name, error and infoMessage are null and
\* isConnecting is false
C13_ManualSuccessConnects ==
    (/\ lastOp[1] = "connectWallet" /\ lastOp[2] = "details"
     /\ lastOp[3] \in WalletStates)
    => /\ walletApi \in Handles
       /\ walletState = lastOp[3]
       /\ serviceUris = ServiceUris
       /\ walletName = ConnectorName
       /\ error = NULL /\ infoMessage = NULL
       /\ ~isConnecting

\* C14: when an approval poll saw isEnabled() = true and the enable(), state()
\* and serviceUriConfig() of the re-run have resolved, the provider is
\* connected with the approval poll disarmed, infoMessage and error null and
\* isConnecting false
C14_ApprovalSuccessConnects ==
    (/\ lastOp[1] = "approvalPoll" /\ lastOp[2] = "details"
     /\ lastOp[3] \in WalletStates)
    => /\ walletApi \in Handles
       /\ walletState = lastOp[3]
       /\ approvalPollIntervalRef = NULL
       /\ infoMessage = NULL /\ error = NULL
       /\ ~isConnecting

\* C15: the approval poll is never armed together with the status poll or
\* the state poll, and no ref was ever overwritten while it held a running
\* timer, so at most one timer of each kind runs
C15_PollsMutuallyExclusive ==
    /\ approvalPollIntervalRef = ARMED
       => (statusPollIntervalRef = NULL /\ statePollIntervalRef = NULL)
    /\ ~orphanTimers

\* the approval poll was armed over running background polls
C15_Witness ==
    /\ lastOp[1] = "connectWallet" /\ lastOp[2] = "details"
    /\ walletApi # NULL
    /\ approvalPollIntervalRef = ARMED
    /\ statusPollIntervalRef = NULL /\ statePollIntervalRef = NULL

\* C16: in every quiescent state (no connector call awaited, no approval
\* poll running) with walletApi non-null the status poll and the state poll
\* are both armed
C16_ConnectedIsPolled ==
    (walletApi # NULL /\ inFlight = EmptyBag /\ approvalPollIntervalRef = NULL)
    => (statusPollIntervalRef = ARMED /\ statePollIntervalRef = ARMED)

\* C17: when the re-run of the connect routine started by an approval poll
\* fails (enable() rejects with any error, or state() or serviceUriConfig()
\* rejects) the attempt ends in Error: error non-null, isConnecting false,
\* infoMessage null and no timer armed
C17_ApprovalRerunFailureIsError ==
    (/\ lastOp[1] = "approvalPoll"
     /\ \/ lastOp[2] = "enable" /\ lastOp[3] \in EnableErrors
        \/ lastOp[2] = "details" /\ lastOp[3] \notin WalletStates)
    => /\ error # NULL
       /\ ~isConnecting
       /\ infoMessage = NULL
       /\ NoTimerArmed

\* C18: from the approval poll's timeout until connectWallet() starts a new
\* attempt (which clears the timed-out error) no callback of the approval
\* poll calls enable() or makes walletApi non-null
C18_TimeoutIsTerminal ==
    [][(error = ErrTimedOut /\ lastOp'[1] = "approvalPoll")
       => /\ lastOp' # <<"approvalPoll", "isEnabled", "true">>
          /\ (walletApi = NULL => walletApi' = NULL)]_vars

\* C19: in every state in which the approval poll is armed infoMessage is
\* non-null, error is null and isConnecting is true
C19_ApprovalPendingIsInfo ==
    approvalPollIntervalRef = ARMED
    => (infoMessage # NULL /\ error = NULL /\ isConnecting)

\* C20: with intervals that keep firing and connector calls that settle,
\* every state with isConnecting true is followed by a state with
\* isConnecting false
C20_AttemptFinishes == isConnecting ~> ~isConnecting

\* C21: a state poll whose state() throws disconnects: walletApi, walletState
\* and serviceUris are null and no timer is armed afterwards, and the failed
\* call is not issued again (the callback ends, no connector call is started)
C21_StatePollFailureDisconnects ==
    [][(lastOp' = <<"statePoll", "state", "throws">>)
       => /\ walletApi' = NULL /\ walletState' = NULL /\ serviceUris' = NULL
          /\ NoTimerArmed'
          /\ BagCardinality(inFlight') = BagCardinality(inFlight) - 1]_vars

\* the poll failed in a connected session
C21_Witness ==
    /\ lastOp = <<"statePoll", "state", "throws">>
    /\ walletApi = NULL /\ walletName = NULL
    /\ cleared /\ lastEstablish = "none"

\* C22: after an approval poll tick whose isEnabled() threw, error is the
\* approval-check-failed message, infoMessage is null, isConnecting is false
\* and no timer is armed, so no tick issues another isEnabled()
C22_ApprovalCheckFailureIsError ==
    (lastOp = <<"approvalPoll", "isEnabled", "throws">>)
    => /\ error = ErrApprovalCheck
       /\ infoMessage = NULL
       /\ ~isConnecting
       /\ NoTimerArmed

\* the first check of a wait threw
C22_Witness ==
    /\ lastOp = <<"approvalPoll", "isEnabled", "throws">>
    /\ error = ErrApprovalCheck
    /\ walletApi = NULL /\ inFlight = EmptyBag

\* C23 as stated: when the mount-time isEnabled() resolved false or threw, or
\* the connector was absent at mount, the initial check has completed with
\* walletApi null, no timer armed and no enable() call of the check awaited
C23_InitialCheckEndsIdle ==
    (\/ lastOp = <<"mount", "", "noConnector">>
     \/ (/\ lastOp[1] = "initialCheck" /\ lastOp[2] = "isEnabled"
         /\ lastOp[3] \in {"false", "throws"}))
    => /\ walletApi = NULL
       /\ NoTimerArmed
       /\ \A t \in BagToSet(inFlight) : t.kind # "initialCheck"

\* C23 amended: the Initial Load Check calls enable() only in the step in
\* which its isEnabled() resolved true; when isEnabled() resolves false or
\* throws the check ends without a connector call and changes nothing but
\* isCheckingStatus, so walletApi and the timers stay what they were (null
\* and disarmed unless a connectWallet() made in the meantime set them); with
\* no connector at mount nothing is called, walletApi is null and no timer
\* is armed
C23_InitialCheckSkipsEnable ==
    [][/\ (/\ lastOp'[1] = "initialCheck" /\ lastOp'[2] = "isEnabled"
           /\ lastOp'[3] \in {"false", "throws"})
          => /\ S' = [S EXCEPT !.isCheckingStatus = FALSE]
             /\ inFlight' = inFlight (-)
                    SetToBag({Task("initialCheck", "isEnabled", FALSE, NULL)})
       /\ (lastOp' = <<"mount", "", "noConnector">>)
          => /\ walletApi' = NULL /\ NoTimerArmed'
             /\ inFlight' = EmptyBag
       /\ (\E t \in BagToSet(inFlight') \ BagToSet(inFlight) :
               t.kind = "initialCheck" /\ t.pc = "enable")
          => lastOp' = <<"initialCheck", "isEnabled", "true">>]_vars

\* the check found the wallet not enabled and nothing else was going on
C23_Witness ==
    /\ lastOp = <<"initialCheck", "isEnabled", "false">>
    /\ walletApi = NULL /\ NoTimerArmed
    /\ inFlight = EmptyBag

\* C24: isCheckingStatus is true while the Initial Load Check (its isEnabled()
\* call or the silent establish it started) is awaited and false once the
\* provider has mounted and the check is over
C24_CheckingWhileInitialCheck ==
    mounted => (isCheckingStatus
                <=> \E t \in BagToSet(inFlight) : t.kind = "initialCheck")

\* C25: in every state a non-null walletState or serviceUris comes with a
\* non-null walletApi
C25_DetailsBelongToHandle ==
    (walletState # NULL \/ serviceUris # NULL) => walletApi # NULL

\* the runs of _establishConnection that have not returned: they await
\* enable() or the details
EstablishRuns ==
    LET ts == {t \in BagToSet(inFlight) : t.pc \in {"enable", "details"}}
        RECURSIVE Sum(_)
        Sum(X) == IF X = {} THEN 0
                  ELSE LET t == CHOOSE x \in X : TRUE
                       IN CopiesIn(t, inFlight) + Sum(X \ {t})
    IN Sum(ts)

\* C26: at most one run of the establish-connection routine, hence at most
\* one enable() call, is in flight in every state
C26_OneEstablishAtATime == EstablishRuns <= 1

\* C27: in every state with isConnecting true a connector call of a manual
\* attempt (of connectWallet or of the approval poll it started) is awaited
\* or the approval poll is armed
C27_ConnectingHasPendingEvent ==
    isConnecting
    => \/ \E t \in BagToSet(inFlight) : t.kind \in {"connectWallet", "approvalPoll"}
       \/ approvalPollIntervalRef = ARMED

\* C28: in every state with walletApi and walletState non-null, isConnecting
\* false and no connector call awaited, error is null
C28_ConnectedShowsNoError ==
    (/\ walletApi # NULL /\ walletState # NULL /\ ~isConnecting
     /\ inFlight = EmptyBag)
    => error = NULL

====
